---- MODULE Spec2Model ----
(***************************************************************************)
(* Model of the ontology repository of src/realization/func.py             *)
(* (Neo4jRepository): a property graph of labelled nodes and typed,        *)
(* directed arcs, the store primitives on it, and the ontology operations  *)
(* built from them: signature resolution, object validation, relationship  *)
(* reconciliation and cascading class deletion.                            *)
(*                                                                         *)
(* A node is [nid, uri, label, title, keys]: nid is the store's identity   *)
(* of the node, keys the names of the further properties set on it.  An    *)
(* arc is [id, type, from, to] with from/to the nids of its endpoints.     *)
(* An optional argument is a sequence of length at most one: <<>> is       *)
(* Python's None.  The uri 0 is a string that names no node ("").          *)
(***************************************************************************)
EXTENDS Integers, Sequences, FiniteSets, TLC

\* Bounds of the model.
MaxNodes == 3       \* nodes in the graph, under Spec
MaxStoreNodes == 4  \* nodes in the graph, under SpecStore
MaxArcs == 4        \* arcs in the graph
MaxOps == 1         \* entries of an object_properties list
MaxSub == 2         \* SUBCLASSOF arcs in the graph
MaxRawNodes == 2    \* nodes in the graph, under SpecNodes
MaxRaceNodes == 3   \* nodes in the graph when the two calls start, under SpecRace

\* Argument domains.
TITLES == {"", "knows"}          \* attr_name of add_class_object_attribute
DIRS == {1, -1, 0}               \* "direction" of an object_properties entry
ClassTitle == "Person"
AttrTitle == "name"
ObjectTitle == "John"

\* nodes, edges: the stored graph.  run: how far a call of delete_class and a
\* call of create_object that run side by side have got.
VARIABLES nodes, edges, run
vars == <<nodes, edges, run>>

----------------------------------------------------------------------------
\* Graph values threaded through one operation.  dead: ids of the arcs the
\* operation has deleted (the store does not hand them out again while the
\* operation runs); ndel / ncre: its delete_arc_by_id and create_arc calls.
Graph(ns, es) == [nodes |-> ns, edges |-> es, dead |-> {}, ndel |-> 0, ncre |-> 0]

Least(S) == CHOOSE i \in S : \A j \in S : i <= j

NodesByUri(G, uri) == {n \in G.nodes : n.uri = uri}

NodeOf(G, nid) == CHOOSE n \in G.nodes : n.nid = nid

\* A uri no node of the graph has.
generate_random_string(G) ==
    Least({i \in 1..(Cardinality(G.nodes) + 1) : \A n \in G.nodes : n.uri # i})

NewNid(G) ==
    Least({i \in 1..(Cardinality(G.nodes) + 1) : \A n \in G.nodes : n.nid # i})

\* The store's id of a new arc: its type and endpoints with a serial number
\* among the arcs parallel to it, one that no arc has and that no arc the
\* running operation deleted had.
NewArcId(G, rel_type, from, to) ==
    LET taken == {e.id : e \in G.edges} \cup G.dead
    IN <<rel_type, from, to,
         Least({k \in 1..(Cardinality(taken) + 1) : <<rel_type, from, to, k>> \notin taken})>>

\* MATCH (n {uri: $uri}) RETURN n LIMIT 1: the empty set is None.
get_node_by_uri(G, uri) ==
    IF NodesByUri(G, uri) = {} THEN {}
    ELSE {CHOOSE n \in NodesByUri(G, uri) : TRUE}

\* CREATE (n:label $props)
create_node(G, label, uri, title, keys) ==
    IF label = "" THEN [g |-> G, res |-> "raised", node |-> {}]
    ELSE LET n == [nid |-> NewNid(G),
                   uri |-> IF uri = 0 THEN generate_random_string(G) ELSE uri,
                   label |-> label, title |-> title, keys |-> keys]
         IN [g |-> [G EXCEPT !.nodes = @ \cup {n}], res |-> "ok", node |-> {n}]

RECURSIVE AddArcs(_, _, _)
AddArcs(G, pairs, rel_type) ==
    IF pairs = {} THEN G
    ELSE LET p == CHOOSE q \in pairs : TRUE
             e == [id |-> NewArcId(G, rel_type, p[1].nid, p[2].nid), type |-> rel_type,
                   from |-> p[1].nid, to |-> p[2].nid]
         IN AddArcs([G EXCEPT !.edges = @ \cup {e}], pairs \ {p}, rel_type)

\* MATCH (a {uri: $from_uri}), (b {uri: $to_uri}) CREATE (a)-[r:rel_type]->(b)
create_arc(G, node1_uri, node2_uri, rel_type) ==
    LET rt == IF rel_type = "" THEN "RELATED" ELSE rel_type
        pairs == NodesByUri(G, node1_uri) \X NodesByUri(G, node2_uri)
        G1 == [G EXCEPT !.ncre = @ + 1]
    IN IF pairs = {} THEN [g |-> G1, res |-> "raised"]
       ELSE [g |-> AddArcs(G1, pairs, rt), res |-> "ok"]

\* MATCH (n {uri: $uri}) DETACH DELETE n
delete_node_by_uri(G, uri) ==
    LET gone == {n.nid : n \in NodesByUri(G, uri)}
        cut == {e \in G.edges : e.from \in gone \/ e.to \in gone}
    IN [g |-> [G EXCEPT !.nodes = {n \in @ : n.nid \notin gone},
                        !.edges = @ \ cut,
                        !.dead = @ \cup {e.id : e \in cut}],
        res |-> IF gone = {} THEN "false" ELSE "ok"]

\* MATCH ()-[r]->() WHERE elementId(r) = $id DELETE r
delete_arc_by_id(G, arc_id) ==
    LET cut == {e \in G.edges : e.id = arc_id}
    IN [g |-> [G EXCEPT !.edges = @ \ cut,
                        !.dead = @ \cup {e.id : e \in cut},
                        !.ndel = @ + 1],
        res |-> IF cut = {} THEN "false" ELSE "ok"]

\* MATCH (n {uri: $uri}) SET n += $props.  title is optional (<<>>: not given).
update_node(G, uri, title, keys) ==
    IF title = <<>> /\ keys = {} THEN [g |-> G, node |-> get_node_by_uri(G, uri)]
    ELSE LET upd(n) == [n EXCEPT !.title = IF title = <<>> THEN @ ELSE title[1],
                                 !.keys = @ \cup keys]
             G1 == [G EXCEPT !.nodes = {IF n.uri = uri THEN upd(n) ELSE n : n \in @}]
         IN [g |-> G1, node |-> get_node_by_uri(G1, uri)]

get_class(G, uri) == {n \in get_node_by_uri(G, uri) : n.label = "Class"}

get_object(G, uri) == {n \in get_node_by_uri(G, uri) : n.label = "Object"}

----------------------------------------------------------------------------
\* TrailEnds with the hop count *0..0: no SUBCLASSOF arc is followed.
TrailEnds_no_hop(G, nid, used) == {nid}

\* (n)-[:SUBCLASSOF*0..]->(s): the nodes at the end of a trail of SUBCLASSOF
\* arcs leaving the node nid, no arc used twice on one trail.
RECURSIVE TrailEnds(_, _, _)
TrailEnds(G, nid, used) ==
    {nid} \cup UNION {TrailEnds(G, e.to, used \cup {e.id}) :
                        e \in {x \in G.edges : /\ x.type = "SUBCLASSOF"
                                               /\ x.from = nid
                                               /\ x.id \notin used}}

\* SuperClasses with the hop count *0..1 in place of *0..: the class and its
\* direct parents only.
SuperClasses_one_hop(G, uri) ==
    {s \in G.nodes :
        /\ s.label = "Class"
        /\ \E n \in NodesByUri(G, uri) :
              \/ s.nid = n.nid
              \/ \E e \in G.edges :
                    e.type = "SUBCLASSOF" /\ e.from = n.nid /\ e.to = s.nid}

\* The Class nodes s of (n {uri: $uri})-[:SUBCLASSOF*0..]->(s:`Class`).
SuperClasses(G, uri) ==
    {s \in G.nodes :
        /\ s.label = "Class"
        /\ \E n \in NodesByUri(G, uri) : s.nid \in TrailEnds(G, n.nid, {})}

\* collect_signature's two queries.  A row keeps the nid of the matched
\* property node (and of the range class) beside the fields the code copies
\* out, so that equal dictionaries of distinct rows stay distinct.
QueryDatatype(G, class_uri) ==
    {[nid |-> d.nid, uri |-> d.uri, title |-> d.title] :
        d \in {x \in G.nodes :
                 /\ x.label = "DatatypeProperty"
                 /\ \E s \in SuperClasses(G, class_uri) : \E e \in G.edges :
                        e.type = "DOMAIN" /\ e.from = x.nid /\ e.to = s.nid}}

QueryObjectForward(G, class_uri) ==
    LET ds == {x \in G.nodes :
                 /\ x.label = "ObjectProperty"
                 /\ \E s \in SuperClasses(G, class_uri) : \E e \in G.edges :
                        e.type = "DOMAIN" /\ e.from = x.nid /\ e.to = s.nid}
        rs(d) == {r \in G.nodes :
                    /\ r.label = "Class"
                    /\ \E e \in G.edges :
                        e.type = "RANGE" /\ e.from = d.nid /\ e.to = r.nid}
    IN UNION {{[nid |-> d.nid, uri |-> d.uri, title |-> d.title,
                rnid |-> r.nid, target_class_uri |-> r.uri] : r \in rs(d)} : d \in ds}

collect_signature(G, class_uri) ==
    IF get_class(G, class_uri) = {}
    THEN [res |-> "raised", params |-> {}, obj_params |-> {}]
    ELSE [res |-> "ok",
          params |-> QueryDatatype(G, class_uri),
          obj_params |-> QueryObjectForward(G, class_uri)]

----------------------------------------------------------------------------
\* Ontology operations.  Each yields [g, res]: the graph it leaves and how
\* the call ended: "ok" (a node or True returned), "false" (False returned),
\* "none" (None returned) or "raised".

create_class(G, title, parent_uri) ==
    LET uri == generate_random_string(G)
        c == create_node(G, "Class", uri, title, {})
    IN IF parent_uri = <<>> \/ parent_uri = <<0>> THEN [g |-> c.g, res |-> "ok"]
       ELSE create_arc(c.g, uri, parent_uri[1], "SUBCLASSOF")

RECURSIVE DeleteNodes(_, _)
DeleteNodes(G, uris) ==
    IF uris = {} THEN G
    ELSE LET u == CHOOSE x \in uris : TRUE
         IN DeleteNodes(delete_node_by_uri(G, u).g, uris \ {u})

\* MATCH (desc:`Class`)-[:SUBCLASSOF*0..]->(c {uri: $uri}) RETURN distinct desc.uri
DescUris(G, uri) ==
    {d.uri : d \in {x \in G.nodes :
                      /\ x.label = "Class"
                      /\ \E c \in NodesByUri(G, uri) : c.nid \in TrailEnds(G, x.nid, {})}}

\* MATCH (o:`Object`)-[:INSTANCEOF]->(c:`Class` WHERE c.uri IN $class_uris)
ObjUris(G, class_uris) ==
    {o.uri : o \in {x \in G.nodes :
                      /\ x.label = "Object"
                      /\ \E e \in G.edges :
                            /\ e.type = "INSTANCEOF" /\ e.from = x.nid
                            /\ NodeOf(G, e.to).label = "Class"
                            /\ NodeOf(G, e.to).uri \in class_uris}}

\* delete_class that also deletes the property nodes with a DOMAIN or RANGE
\* arc to a class it deletes.
delete_class_with_properties(G, uri) ==
    LET desc_uris == DescUris(G, uri)
        obj_uris == ObjUris(G, desc_uris)
        prop_uris == {NodeOf(G, e.from).uri :
                         e \in {x \in G.edges : /\ x.type \in {"DOMAIN", "RANGE"}
                                                /\ NodeOf(G, x.to).uri \in desc_uris}}
    IN IF desc_uris = {} THEN [g |-> G, res |-> "false"]
       ELSE [g |-> DeleteNodes(DeleteNodes(G, obj_uris \cup prop_uris), desc_uris),
             res |-> "ok"]

delete_class(G, uri) ==
    LET desc_uris == DescUris(G, uri)
        obj_uris == ObjUris(G, desc_uris)
    IN IF desc_uris = {} THEN [g |-> G, res |-> "false"]
       ELSE [g |-> DeleteNodes(DeleteNodes(G, obj_uris), desc_uris), res |-> "ok"]

add_class_attribute(G, class_uri, title) ==
    IF get_node_by_uri(G, class_uri) = {} THEN [g |-> G, res |-> "raised"]
    ELSE LET prop_uri == generate_random_string(G)
             p == create_node(G, "DatatypeProperty", prop_uri, title, {})
         IN create_arc(p.g, prop_uri, class_uri, "DOMAIN")

delete_class_attribute(G, prop_uri) ==
    IF \A n \in get_node_by_uri(G, prop_uri) : n.label # "DatatypeProperty"
    THEN [g |-> G, res |-> "false"]
    ELSE delete_node_by_uri(G, prop_uri)

add_class_object_attribute(G, class_uri, attr_name, range_class_uri) ==
    IF get_node_by_uri(G, class_uri) = {} \/ get_node_by_uri(G, range_class_uri) = {}
    THEN [g |-> G, res |-> "raised"]
    ELSE LET prop_uri == generate_random_string(G)
             p == create_node(G, "ObjectProperty", prop_uri, attr_name, {})
             d == create_arc(p.g, prop_uri, class_uri, "DOMAIN")
         IN IF d.res = "raised" THEN d
            ELSE create_arc(d.g, prop_uri, range_class_uri, "RANGE")

delete_class_object_attribute(G, object_property_uri) ==
    IF \A n \in get_node_by_uri(G, object_property_uri) : n.label # "ObjectProperty"
    THEN [g |-> G, res |-> "false"]
    ELSE delete_node_by_uri(G, object_property_uri)

add_class_parent(G, parent_uri, target_uri) ==
    IF get_node_by_uri(G, parent_uri) = {} \/ get_node_by_uri(G, target_uri) = {}
    THEN [g |-> G, res |-> "raised"]
    ELSE create_arc(G, target_uri, parent_uri, "SUBCLASSOF")

delete_object(G, uri) ==
    IF get_object(G, uri) = {} THEN [g |-> G, res |-> "false"]
    ELSE delete_node_by_uri(G, uri)

\* rel_type of an object_properties entry: the title of the node its
\* relation_uri names.
RelType(G, relation_uri) ==
    IF get_node_by_uri(G, relation_uri) = {} THEN "RELATED"
    ELSE (CHOOSE n \in get_node_by_uri(G, relation_uri) : TRUE).title

\* The validation loops shared by create_object and update_object.
UnknownProperty(sig, properties) ==
    \E k \in properties : k \notin {p.uri : p \in sig.params}

BadObjectProperty(G, sig, object_properties) ==
    \E i \in 1..Len(object_properties) :
        \/ object_properties[i].relation_uri \notin {p.uri : p \in sig.obj_params}
        \/ get_node_by_uri(G, object_properties[i].obj_uri) = {}

\* for op in object_properties: create_arc in the direction asked for.
RECURSIVE CreateRelations(_, _, _, _)
CreateRelations(G, uri, object_properties, i) ==
    IF i > Len(object_properties) THEN [g |-> G, res |-> "ok"]
    ELSE LET op == object_properties[i]
             rel_type == RelType(G, op.relation_uri)
             a == IF op.direction = 1
                  THEN create_arc(G, uri, op.obj_uri, rel_type)
                  ELSE create_arc(G, op.obj_uri, uri, rel_type)
         IN IF a.res = "raised" THEN a
            ELSE CreateRelations(a.g, uri, object_properties, i + 1)

\* create_object with the object_properties loop of lines 375-380 moved
\* after the creation of the node and of its INSTANCEOF arc.
create_object_late_check(G, class_uri, title, properties, object_properties) ==
    LET signature == collect_signature(G, class_uri)
    IN IF \/ get_class(G, class_uri) = {}
          \/ signature.res = "raised"
          \/ UnknownProperty(signature, properties)
       THEN [g |-> G, res |-> "raised"]
       ELSE LET uri == generate_random_string(G)
                n == create_node(G, "Object", uri, title, properties)
                a == create_arc(n.g, uri, class_uri, "INSTANCEOF")
            IN IF a.res = "raised" \/ BadObjectProperty(G, signature, object_properties)
               THEN [g |-> a.g, res |-> "raised"]
               ELSE CreateRelations(a.g, uri, object_properties, 1)

create_object(G, class_uri, title, properties, object_properties) ==
    LET signature == collect_signature(G, class_uri)
    IN IF \/ get_class(G, class_uri) = {}
          \/ signature.res = "raised"
          \/ UnknownProperty(signature, properties)
          \/ BadObjectProperty(G, signature, object_properties)
       THEN [g |-> G, res |-> "raised"]
       ELSE LET uri == generate_random_string(G)
                n == create_node(G, "Object", uri, title, properties)
                a == create_arc(n.g, uri, class_uri, "INSTANCEOF")
            IN IF a.res = "raised" THEN a
               ELSE CreateRelations(a.g, uri, object_properties, 1)

\* cypher_class: the uri of a node an INSTANCEOF arc of the object leads to.
\* .single() yields one of the rows the query returns (none: no class).
ClassRows(G, uri) ==
    {NodeOf(G, e.to).uri :
        e \in {x \in G.edges : /\ x.type = "INSTANCEOF"
                               /\ \E o \in NodesByUri(G, uri) : x.from = o.nid}}

\* CurrentRels without the WHERE target:`Object` of cypher_current.
CurrentRels_any_target(G, uri) ==
    LET os == {o.nid : o \in NodesByUri(G, uri)}
        touching == {e \in G.edges : e.from \in os \/ e.to \in os}
        target(e) == IF e.from \in os THEN NodeOf(G, e.to) ELSE NodeOf(G, e.from)
    IN {[rel_type |-> e.type, target_uri |-> target(e).uri, arc_id |-> e.id,
         direction |-> IF NodeOf(G, e.from).uri = uri THEN 1 ELSE -1] : e \in touching}

\* cypher_current: MATCH (o {uri: $uri})-[r]-(target) WHERE target:`Object`
CurrentRels(G, uri) ==
    LET os == {o.nid : o \in NodesByUri(G, uri)}
        touching == {e \in G.edges : e.from \in os \/ e.to \in os}
        target(e) == IF e.from \in os THEN NodeOf(G, e.to) ELSE NodeOf(G, e.from)
    IN {[rel_type |-> e.type, target_uri |-> target(e).uri, arc_id |-> e.id,
         direction |-> IF NodeOf(G, e.from).uri = uri THEN 1 ELSE -1] :
            e \in {x \in touching : target(x).label = "Object"}}

\* new_rels_set
NewRelsSet(object_properties) ==
    {<<object_properties[i].relation_uri, object_properties[i].obj_uri,
       object_properties[i].direction>> : i \in 1..Len(object_properties)}

\* The orders the rows of signature["obj_params"] can come in decide, per
\* title, which row the loop "for p in signature['obj_params']" finds first.
FirstByTitle(sig) ==
    LET ts == {p.title : p \in sig.obj_params}
    IN {f \in [ts -> sig.obj_params] : \A t \in ts : f[t].title = t}

\* The rows of current_rels whose arc the first loop deletes.
StaleRels(G, uri, sig, first, object_properties) ==
    {rel \in CurrentRels(G, uri) :
        /\ rel.rel_type \in DOMAIN first
        /\ <<first[rel.rel_type].uri, rel.target_uri, rel.direction>>
               \notin NewRelsSet(object_properties)}

RECURSIVE DeleteArcs(_, _)
DeleteArcs(G, ids) ==
    IF ids = {} THEN G
    ELSE LET i == CHOOSE x \in ids : TRUE
         IN DeleteArcs(delete_arc_by_id(G, i).g, ids \ {i})

\* cypher_check: the arcs of type rel_type from the node from_uri to to_uri.
CheckCount(G, from_uri, to_uri, rel_type) ==
    Cardinality({e \in G.edges :
        /\ e.type = rel_type
        /\ \E a \in NodesByUri(G, from_uri) : e.from = a.nid
        /\ \E b \in NodesByUri(G, to_uri) : e.to = b.nid})

\* The second loop: create the arcs of the desired list that are missing.
RECURSIVE CreateMissing(_, _, _, _)
CreateMissing(G, uri, object_properties, i) ==
    IF i > Len(object_properties) THEN [g |-> G, res |-> "ok"]
    ELSE LET op == object_properties[i]
             rel_type == RelType(G, op.relation_uri)
             from_uri == IF op.direction = 1 THEN uri ELSE op.obj_uri
             to_uri == IF op.direction = 1 THEN op.obj_uri ELSE uri
             a == IF CheckCount(G, from_uri, to_uri, rel_type) = 0
                  THEN create_arc(G, from_uri, to_uri, rel_type)
                  ELSE [g |-> G, res |-> "ok"]
         IN IF a.res = "raised" THEN a
            ELSE CreateMissing(a.g, uri, object_properties, i + 1)

\* Lines 426-477: the reconciliation of the object's arcs with the desired
\* list, for one order of the signature.
Reconcile(G, uri, sig, first, object_properties) ==
    LET stale == {rel.arc_id : rel \in StaleRels(G, uri, sig, first, object_properties)}
    IN CreateMissing(DeleteArcs(G, stale), uri, object_properties, 1)

\* UpdateObjectWith with the delete loop of lines 439-452 run before the
\* object_properties validation of lines 417-424.
UpdateObjectWith_late_check(G, uri, title, properties, object_properties, class_uri, first) ==
    LET signature == collect_signature(G, class_uri)
    IN IF signature.res = "raised" \/ UnknownProperty(signature, properties)
       THEN [g |-> G, res |-> "raised"]
       ELSE IF object_properties # <<>> /\ BadObjectProperty(G, signature, object_properties[1])
       THEN [g |-> DeleteArcs(G, {rel.arc_id :
                       rel \in StaleRels(G, uri, signature, first, object_properties[1])}),
             res |-> "raised"]
       ELSE LET r == IF object_properties = <<>> THEN [g |-> G, res |-> "ok"]
                     ELSE Reconcile(G, uri, signature, first, object_properties[1])
            IN IF r.res = "raised" THEN r
               ELSE LET u == update_node(r.g, uri, title, properties)
                    IN [g |-> u.g, res |-> IF u.node = {} THEN "none" ELSE "ok"]

\* update_object for one class row and one order of the signature.
\* object_properties is optional: <<>> is None, <<D>> the list D.
UpdateObjectWith(G, uri, title, properties, object_properties, class_uri, first) ==
    LET signature == collect_signature(G, class_uri)
    IN IF \/ signature.res = "raised"
          \/ UnknownProperty(signature, properties)
          \/ /\ object_properties # <<>>
             /\ BadObjectProperty(G, signature, object_properties[1])
       THEN [g |-> G, res |-> "raised"]
       ELSE LET r == IF object_properties = <<>> THEN [g |-> G, res |-> "ok"]
                     ELSE Reconcile(G, uri, signature, first, object_properties[1])
            IN IF r.res = "raised" THEN r
               ELSE LET u == update_node(r.g, uri, title, properties)
                    IN [g |-> u.g, res |-> IF u.node = {} THEN "none" ELSE "ok"]

\* The outcomes of update_object: one per row .single() may return and per
\* order of the signature.
update_object(G, uri, title, properties, object_properties) ==
    IF get_object(G, uri) = {} THEN {[g |-> G, res |-> "none"]}
    ELSE IF ClassRows(G, uri) = {} \/ ClassRows(G, uri) = {0}
    THEN {[g |-> G, res |-> "raised"]}
    ELSE UNION {
           {UpdateObjectWith(G, uri, title, properties, object_properties, c, f) :
               f \in FirstByTitle(collect_signature(G, c))} :
           c \in ClassRows(G, uri)}

----------------------------------------------------------------------------
\* The repository as a state machine: one action per public operation, run
\* to completion on the stored graph.

\* No call is under way.
Idle ==
    [dc |-> [pc |-> "idle", uri |-> 0, desc |-> {}, objs |-> {}],
     co |-> [pc |-> "idle", class_uri |-> 0, uri |-> 0]]

Init ==
    /\ nodes = {}
    /\ edges = {}
    /\ run = Idle

Store == Graph(nodes, edges)

\* The uris a caller passes: those of the nodes, and 0, which names no node.
Uris == {0} \cup {n.uri : n \in nodes}

\* The child add_class_parent is given: a class, or a uri that names no node.
ClassUris == {0} \cup {n.uri : n \in {x \in nodes : x.label = "Class"}}

\* The keys of a properties dictionary and the relation_uri of an
\* object_properties entry: the uri of a property node, or 0.
PropUris ==
    {0} \cup {n.uri : n \in {x \in nodes : x.label \in {"DatatypeProperty", "ObjectProperty"}}}

PropArgs == {ks \in SUBSET PropUris : Cardinality(ks) <= 1}

OpEntries == [relation_uri : PropUris, obj_uri : Uris, direction : DIRS]

OpLists == UNION {[1..k -> OpEntries] : k \in 0..MaxOps}

Bounded(G, N) ==
    /\ Cardinality(G.nodes) <= N
    /\ Cardinality(G.edges) <= MaxArcs
    /\ Cardinality({e \in G.edges : e.type = "SUBCLASSOF"}) <= MaxSub

\* The call is made on the stored graph and leaves the graph r.g, of at most
\* N nodes.
Done(r, N) ==
    /\ Bounded(r.g, N)
    /\ nodes' = r.g.nodes
    /\ edges' = r.g.edges
    /\ UNCHANGED run

\* The non-empty uris that name no node.
DanglingUris == {u \in 1..(Cardinality(nodes) + 1) : \A n \in nodes : n.uri # u}

CreateClass(N) ==
    \E parent_uri \in {<<>>} \cup {<<u>> : u \in Uris \cup DanglingUris} :
        Done(create_class(Store, ClassTitle, parent_uri), N)

AddClassParent(N) ==
    \E parent_uri \in Uris, target_uri \in ClassUris :
        Done(add_class_parent(Store, parent_uri, target_uri), N)

AddClassAttribute(N) ==
    \E class_uri \in Uris :
        Done(add_class_attribute(Store, class_uri, AttrTitle), N)

AddClassObjectAttribute(N) ==
    \E class_uri \in Uris, attr_name \in TITLES, range_class_uri \in Uris :
        Done(add_class_object_attribute(Store, class_uri, attr_name, range_class_uri), N)

DeleteClass(N) ==
    \E uri \in Uris : Done(delete_class(Store, uri), N)

DeleteClassAttribute(N) ==
    \E uri \in Uris : Done(delete_class_attribute(Store, uri), N)

DeleteClassObjectAttribute(N) ==
    \E uri \in Uris : Done(delete_class_object_attribute(Store, uri), N)

CreateObject(N) ==
    \E class_uri \in Uris, properties \in PropArgs, object_properties \in OpLists :
        Done(create_object(Store, class_uri, ObjectTitle, properties, object_properties), N)

UpdateObject(N) ==
    \E uri \in Uris, properties \in PropArgs,
       object_properties \in {<<>>} \cup {<<D>> : D \in OpLists} :
        \E r \in update_object(Store, uri, <<>>, properties, object_properties) :
            Done(r, N)

DeleteObject(N) ==
    \E uri \in Uris : Done(delete_object(Store, uri), N)

\* The store primitives called directly, as the usage script does: a further
\* DOMAIN or RANGE arc from a property node to a class, and the removal of a
\* SUBCLASSOF arc.
CreateArc(N) ==
    \E node1_uri \in PropUris, node2_uri \in ClassUris, rel_type \in {"DOMAIN", "RANGE"} :
        Done(create_arc(Store, node1_uri, node2_uri, rel_type), N)

DeleteArcById(N) ==
    \E arc_id \in {e.id : e \in {x \in edges : x.type = "SUBCLASSOF"}} :
        Done(delete_arc_by_id(Store, arc_id), N)

\* The ontology operations, in any order.
Next ==
    \/ CreateClass(MaxNodes)
    \/ AddClassParent(MaxNodes)
    \/ AddClassAttribute(MaxNodes)
    \/ AddClassObjectAttribute(MaxNodes)
    \/ DeleteClass(MaxNodes)
    \/ DeleteClassAttribute(MaxNodes)
    \/ DeleteClassObjectAttribute(MaxNodes)
    \/ CreateObject(MaxNodes)
    \/ UpdateObject(MaxNodes)
    \/ DeleteObject(MaxNodes)

Spec == Init /\ [][Next]_vars

\* The schema operations together with the store's arc primitives: the
\* graphs a class hierarchy and its properties can be brought into.
StoreNext ==
    \/ CreateClass(MaxStoreNodes)
    \/ AddClassParent(MaxStoreNodes)
    \/ AddClassAttribute(MaxStoreNodes)
    \/ AddClassObjectAttribute(MaxStoreNodes)
    \/ CreateArc(MaxStoreNodes)
    \/ DeleteArcById(MaxStoreNodes)

SpecStore == Init /\ [][StoreNext]_vars

\* The ontology operations with attr_name drawn from titles one of which is
\* an arc type the repository itself uses.
TYPE_TITLES == {"knows", "INSTANCEOF"}

AddClassObjectAttributeAs(N) ==
    \E class_uri \in Uris, attr_name \in TYPE_TITLES, range_class_uri \in Uris :
        Done(add_class_object_attribute(Store, class_uri, attr_name, range_class_uri), N)

TitledNext ==
    \/ CreateClass(MaxNodes)
    \/ AddClassParent(MaxNodes)
    \/ AddClassAttribute(MaxNodes)
    \/ AddClassObjectAttributeAs(MaxNodes)
    \/ DeleteClass(MaxNodes)
    \/ DeleteClassAttribute(MaxNodes)
    \/ DeleteClassObjectAttribute(MaxNodes)
    \/ CreateObject(MaxNodes)
    \/ UpdateObject(MaxNodes)
    \/ DeleteObject(MaxNodes)

SpecTitled == Init /\ [][TitledNext]_vars

\* The store primitives on nodes, called directly with a uri the caller
\* supplies or without one, together with the operations that create nodes
\* and the delete operations.
LABELS == {"Entity", "Class"}

CreateNode(N) ==
    \E label \in LABELS, uri \in Uris \cup DanglingUris :
        LET r == create_node(Store, label, uri, ClassTitle, {})
        IN Done([g |-> r.g, res |-> r.res], N)

UpdateNode(N) ==
    \E uri \in Uris, title \in {<<>>, <<ObjectTitle>>}, keys \in PropArgs :
        LET r == update_node(Store, uri, title, keys)
        IN Done([g |-> r.g, res |-> IF r.node = {} THEN "none" ELSE "ok"], N)

DeleteNodeByUri(N) ==
    \E uri \in Uris : Done(delete_node_by_uri(Store, uri), N)

NodesNext ==
    \/ CreateNode(MaxRawNodes)
    \/ UpdateNode(MaxRawNodes)
    \/ DeleteNodeByUri(MaxRawNodes)
    \/ CreateClass(MaxRawNodes)
    \/ AddClassAttribute(MaxRawNodes)
    \/ AddClassObjectAttribute(MaxRawNodes)
    \/ CreateObject(MaxRawNodes)
    \/ DeleteClass(MaxRawNodes)
    \/ DeleteClassAttribute(MaxRawNodes)
    \/ DeleteClassObjectAttribute(MaxRawNodes)
    \/ DeleteObject(MaxRawNodes)

SpecNodes == Init /\ [][NodesNext]_vars

\* delete_class(uri) and create_object(class_uri, title) running side by
\* side, class_uri a class of the cascade of uri: each store operation of
\* either call is one step, and the steps of the two calls interleave.
StartRace ==
    /\ run = Idle
    /\ \E uri \in Uris : \E class_uri \in DescUris(Store, uri) :
          run' = [dc |-> [pc |-> "desc", uri |-> uri, desc |-> {}, objs |-> {}],
                  co |-> [pc |-> "get_class", class_uri |-> class_uri, uri |-> 0]]
    /\ UNCHANGED <<nodes, edges>>

\* delete_class, line 308-311: cypher_desc.
DcDesc ==
    /\ run.dc.pc = "desc"
    /\ LET desc_uris == DescUris(Store, run.dc.uri)
       IN run' = [run EXCEPT !.dc.desc = desc_uris,
                             !.dc.pc = IF desc_uris = {} THEN "false" ELSE "objs"]
    /\ UNCHANGED <<nodes, edges>>

\* delete_class, line 312-313: cypher_objs.
DcObjs ==
    /\ run.dc.pc = "objs"
    /\ run' = [run EXCEPT !.dc.objs = ObjUris(Store, run.dc.desc), !.dc.pc = "delete"]
    /\ UNCHANGED <<nodes, edges>>

\* delete_class, line 314-315: one delete_node_by_uri of the first loop.
DcDeleteObject ==
    /\ run.dc.pc = "delete"
    /\ \E o_uri \in run.dc.objs :
          LET r == delete_node_by_uri(Store, o_uri)
          IN /\ nodes' = r.g.nodes
             /\ edges' = r.g.edges
             /\ run' = [run EXCEPT !.dc.objs = @ \ {o_uri}]

\* delete_class, line 316-318: one delete_node_by_uri of the second loop,
\* and return True after the last.
DcDeleteClass ==
    /\ run.dc.pc = "delete"
    /\ run.dc.objs = {}
    /\ \E d_uri \in run.dc.desc :
          LET r == delete_node_by_uri(Store, d_uri)
          IN /\ nodes' = r.g.nodes
             /\ edges' = r.g.edges
             /\ run' = [run EXCEPT !.dc.desc = @ \ {d_uri},
                                   !.dc.pc = IF run.dc.desc = {d_uri} THEN "true" ELSE "delete"]

\* create_object, line 366-367: get_class.
CoGetClass ==
    /\ run.co.pc = "get_class"
    /\ run' = [run EXCEPT !.co.pc = IF get_class(Store, run.co.class_uri) = {}
                                    THEN "raised" ELSE "signature"]
    /\ UNCHANGED <<nodes, edges>>

\* create_object, line 368: collect_signature; no property is passed, so
\* only whether it raises matters.
CoSignature ==
    /\ run.co.pc = "signature"
    /\ run' = [run EXCEPT !.co.pc =
                  IF collect_signature(Store, run.co.class_uri).res = "raised"
                  THEN "raised" ELSE "create_node"]
    /\ UNCHANGED <<nodes, edges>>

\* create_object, line 382-385: create_node.
CoCreateNode ==
    /\ run.co.pc = "create_node"
    /\ LET uri == generate_random_string(Store)
           r == create_node(Store, "Object", uri, ObjectTitle, {})
       IN /\ nodes' = r.g.nodes
          /\ edges' = r.g.edges
          /\ run' = [run EXCEPT !.co.uri = uri, !.co.pc = "create_arc"]

\* create_object, line 386: create_arc(uri, class_uri, "INSTANCEOF"), and
\* return node (no object_properties).
CoCreateArc ==
    /\ run.co.pc = "create_arc"
    /\ LET r == create_arc(Store, run.co.uri, run.co.class_uri, "INSTANCEOF")
       IN /\ nodes' = r.g.nodes
          /\ edges' = r.g.edges
          /\ run' = [run EXCEPT !.co.pc = IF r.res = "raised" THEN "raised" ELSE "returned"]

RaceNext ==
    \/ run = Idle /\ CreateClass(MaxRaceNodes)
    \/ run = Idle /\ CreateObject(MaxRaceNodes)
    \/ StartRace
    \/ DcDesc
    \/ DcObjs
    \/ DcDeleteObject
    \/ DcDeleteClass
    \/ CoGetClass
    \/ CoSignature
    \/ CoCreateNode
    \/ CoCreateArc

SpecRace == Init /\ [][RaceNext]_vars

----------------------------------------------------------------------------
\* Vocabulary of the properties below, stated on the graph itself.

Classes == {n \in nodes : n.label = "Class"}

Objects == {n \in nodes : n.label = "Object"}

HasArc(type, from, to) ==
    \E e \in edges : e.type = type /\ e.from = from /\ e.to = to

\* The nodes reachable from the nodes S along SUBCLASSOF arcs: the least set
\* that holds S and the parent of each of its members.
RECURSIVE Ancestors(_)
Ancestors(S) ==
    LET T == S \cup {e.to : e \in {x \in edges : x.type = "SUBCLASSOF" /\ x.from \in S}}
    IN IF T = S THEN S ELSE Ancestors(T)

\* The classes of the ancestor-inclusive closure of the class c.
ClosureClasses(c) == {s \in Classes : s.nid \in Ancestors({c.nid})}

\* The property nodes of the given label declared on a class of c's closure.
DeclaredOn(c, label) ==
    {d \in nodes :
        /\ d.label = label
        /\ \E s \in ClosureClasses(c) : HasArc("DOMAIN", d.nid, s.nid)}

----------------------------------------------------------------------------
\* C1. Inheritance closure: in every graph state and for every Class C,
\* collect_signature(C)["params"] holds exactly the DatatypeProperty nodes
\* with a DOMAIN arc to a class of the reflexive-transitive SUBCLASSOF
\* closure of C, each with its own uri and title; so a property of a
\* transitive ancestor is there, and is gone once the only SUBCLASSOF path
\* to that ancestor is cut.
C1_InheritanceClosure ==
    \A c \in Classes :
        LET sig == collect_signature(Store, c.uri)
        IN /\ sig.res = "ok"
           /\ {[uri |-> p.uri, title |-> p.title] : p \in sig.params}
                = {[uri |-> d.uri, title |-> d.title] : d \in DeclaredOn(c, "DatatypeProperty")}

\* A class inherits a DatatypeProperty declared two SUBCLASSOF arcs away and
\* on no nearer class, and another class that is not below that ancestor
\* does not have it.
C1_Witness ==
    \E a \in Classes, b \in Classes, c \in Classes, d \in nodes :
        /\ a # b /\ b # c /\ a # c
        /\ HasArc("SUBCLASSOF", a.nid, b.nid)
        /\ HasArc("SUBCLASSOF", b.nid, c.nid)
        /\ ~HasArc("SUBCLASSOF", a.nid, c.nid)
        /\ d.label = "DatatypeProperty"
        /\ \A e \in edges : e.type = "DOMAIN" /\ e.from = d.nid => e.to = c.nid
        /\ d.uri \in {p.uri : p \in collect_signature(Store, a.uri).params}

\* C2. Object-property completeness: in every state the ontology operations
\* reach and for every Class C, each ObjectProperty node with a DOMAIN arc
\* to a class of C's closure has a row in collect_signature(C)["obj_params"],
\* whose target_class_uri is the uri of the node its RANGE arc leads to.
C2_ObjectPropertyCompleteness ==
    \A c \in Classes : \A d \in DeclaredOn(c, "ObjectProperty") :
        \E p \in collect_signature(Store, c.uri).obj_params :
            /\ p.uri = d.uri
            /\ \E r \in nodes : HasArc("RANGE", d.nid, r.nid) /\ p.target_class_uri = r.uri

\* C3. Signature deduplication: in every graph state and for every Class C,
\* no property uri occurs in more than one row of params, nor in more than
\* one row of obj_params, whatever the paths to its domain class and the
\* DOMAIN and RANGE arcs that leave the property node.
C3_SignatureDeduplication ==
    \A c \in Classes :
        LET sig == collect_signature(Store, c.uri)
        IN /\ \A p \in sig.params, q \in sig.params : p.uri = q.uri => p = q
           /\ \A p \in sig.obj_params, q \in sig.obj_params : p.uri = q.uri => p = q

\* C4. create_object validates before it mutates: when class_uri names no
\* Class node, or a key of properties is not the uri of a DatatypeProperty of
\* the signature, or an entry of object_properties names a relation that is
\* not in obj_params or a target that no node has, the call raises and
\* leaves the node set and the arc set as they were.
C4_Invalid(class_uri, properties, object_properties) ==
    LET sig == collect_signature(Store, class_uri)
    IN \/ ~\E n \in Classes : n.uri = class_uri
       \/ \E k \in properties : ~\E p \in sig.params : p.uri = k
       \/ \E i \in 1..Len(object_properties) :
            \/ ~\E p \in sig.obj_params : p.uri = object_properties[i].relation_uri
            \/ ~\E n \in nodes : n.uri = object_properties[i].obj_uri

C4_CreateObjectValidatesFirst ==
    \A class_uri \in Uris, properties \in PropArgs, object_properties \in OpLists :
        C4_Invalid(class_uri, properties, object_properties) =>
            LET r == create_object(Store, class_uri, ObjectTitle, properties, object_properties)
            IN /\ r.res = "raised"
               /\ r.g.nodes = nodes
               /\ r.g.edges = edges

\* A class whose signature has a DatatypeProperty and an ObjectProperty, and
\* a call with a known key and a known relation whose target no node has:
\* the call raises.
C4_Witness ==
    \E c \in Classes, k \in PropUris, rel \in PropUris :
        /\ k \in {p.uri : p \in collect_signature(Store, c.uri).params}
        /\ rel \in {p.uri : p \in collect_signature(Store, c.uri).obj_params}
        /\ create_object(Store, c.uri, ObjectTitle, {k},
                         <<[relation_uri |-> rel, obj_uri |-> 0, direction |-> 1]>>).res
             = "raised"

----------------------------------------------------------------------------
\* Reconciliation: vocabulary.

\* The signature of the class the object o is an instance of.
SigOf(G, o) ==
    UNION {{collect_signature(G, NodeOf(G, e.to).uri)} :
              e \in {x \in G.edges : x.type = "INSTANCEOF" /\ x.from = o.nid}}

\* The titles of the ObjectProperties of o's class signature.
KnownTitles(G, o) == {p.title : p \in UNION {sig.obj_params : sig \in SigOf(G, o)}}

\* The arc e realises the desired entry op of the object o: it has the type
\* title(relation_uri) and runs from o to obj_uri when direction is Forward
\* (1), from obj_uri to o otherwise.
Realises(G, e, o, op) ==
    /\ \E r \in NodesByUri(G, op.relation_uri) : e.type = r.title
    /\ \E t \in NodesByUri(G, op.obj_uri) :
          IF op.direction = 1 THEN e.from = o.nid /\ e.to = t.nid
          ELSE e.from = t.nid /\ e.to = o.nid

Touches(e, o) == e.from = o.nid \/ e.to = o.nid

Other(G, e, o) == IF e.from = o.nid THEN NodeOf(G, e.to) ELSE NodeOf(G, e.from)

\* The successful outcomes of update_object(o, object_properties=D).
Updated(G, o, D) == {r \in update_object(G, o.uri, <<>>, {}, <<D>>) : r.res = "ok"}

\* The graph a call leaves, as the next call finds it.
After(r) == Graph(r.g.nodes, r.g.edges)

\* C5. Reconciliation idempotence: for every reachable state, Object o and
\* validated desired list D, a second update_object(o, object_properties=D)
\* right after the first performs no delete_arc_by_id and no create_arc, and
\* leaves the arc set, ids included, as the first call left it.
C5_ReconciliationIdempotence ==
    \A o \in Objects, D \in OpLists :
        \A r1 \in Updated(Store, o, D) : \A r2 \in Updated(After(r1), o, D) :
            /\ r2.g.ndel = 0
            /\ r2.g.ncre = 0
            /\ r2.g.edges = r1.g.edges

\* C6. Reconciliation minimality: update_object(o, object_properties=D)
\* deletes an arc between o and an Object node only if the arc realises no
\* entry of D, creates an arc only for an entry of D that no arc realised
\* before the call, and keeps, with its id, every arc that realises an entry
\* of D.
C6_ReconciliationMinimality ==
    \A o \in Objects, D \in OpLists : \A r \in Updated(Store, o, D) :
        /\ \A e \in edges \ r.g.edges :
              ~\E i \in 1..Len(D) : Realises(Store, e, o, D[i])
        /\ \A e \in r.g.edges \ edges :
              \E i \in 1..Len(D) :
                  /\ Realises(Store, e, o, D[i])
                  /\ ~\E x \in edges : Realises(Store, x, o, D[i])

\* C7. Reconciliation convergence: after a successful
\* update_object(o, object_properties=D), each entry of D is realised by
\* exactly one arc, and every arc touching o whose type is the title of an
\* ObjectProperty of the class signature realises an entry of D, also when
\* the other end is not labelled Object and when D is empty.
C7_ReconciliationConvergence ==
    \A o \in Objects, D \in OpLists : \A r \in Updated(Store, o, D) :
        /\ \A i \in 1..Len(D) :
              Cardinality({e \in r.g.edges : Realises(r.g, e, o, D[i])}) = 1
        /\ \A e \in r.g.edges :
              Touches(e, o) /\ e.type \in KnownTitles(r.g, o) =>
                  \E i \in 1..Len(D) : Realises(r.g, e, o, D[i])

\* C8. Reconciler frame: update_object(o, object_properties=D) deletes and
\* creates only arcs whose type is the title of an ObjectProperty of the
\* signature of o's class, deletes no arc whose other end is not labelled
\* Object, changes no arc that does not touch o, and leaves the node set as
\* it was apart from o's own properties.
C8_ReconcilerFrame ==
    \A o \in Objects, D \in OpLists : \A r \in update_object(Store, o.uri, <<>>, {}, <<D>>) :
        LET deleted == edges \ r.g.edges
            created == r.g.edges \ edges
        IN /\ \A e \in deleted \cup created :
                 /\ e.type \in KnownTitles(Store, o)
                 /\ Touches(e, o)
           /\ \A e \in deleted : Other(Store, e, o).label = "Object"
           /\ \A e \in edges :
                 e.type \in {"INSTANCEOF", "SUBCLASSOF", "DOMAIN", "RANGE"} => e \in r.g.edges
           /\ {n \in r.g.nodes : n.nid # o.nid} = {n \in nodes : n.nid # o.nid}
           /\ \E n \in r.g.nodes : n.nid = o.nid /\ n.uri = o.uri /\ n.label = o.label

----------------------------------------------------------------------------
\* Cascading deletion.

\* The nodes with a SUBCLASSOF path of any length to one of the nodes S.
RECURSIVE Descendants(_)
Descendants(S) ==
    LET T == S \cup {e.from : e \in {x \in edges : x.type = "SUBCLASSOF" /\ x.to \in S}}
    IN IF T = S THEN S ELSE Descendants(T)

\* What the cascade from the node p is to remove: p, the classes below it
\* and the objects that are instances of one of these.
Doomed(p) ==
    LET cs == {p.nid} \cup {c.nid : c \in {x \in Classes : x.nid \in Descendants({p.nid})}}
    IN cs \cup {o.nid : o \in {x \in Objects : \E c \in cs : HasArc("INSTANCEOF", x.nid, c)}}

\* C9. Cascading delete completeness: after delete_class(P) returns True no
\* node remains for P, for a Class that had a SUBCLASSOF path to P, or for
\* an Object that was an instance of one of them, and no arc of any type
\* has a node that is gone at either end.
C9_CascadeCompleteness ==
    \A p \in nodes :
        LET r == delete_class(Store, p.uri)
        IN r.res = "ok" =>
             /\ \A n \in r.g.nodes : n.nid \notin Doomed(p)
             /\ \A e \in r.g.edges :
                    \E a \in r.g.nodes, b \in r.g.nodes : e.from = a.nid /\ e.to = b.nid

\* C10. Cascading delete not-found: delete_class(uri) returns False and
\* leaves the node set and the arc set as they were whenever no node
\* labelled Class has that uri: no node has it, or the node that has it
\* carries another label, incoming SUBCLASSOF arcs or not.
C10_DeleteClassNotFound ==
    \A uri \in Uris :
        (~\E c \in Classes : c.uri = uri) =>
            LET r == delete_class(Store, uri)
            IN /\ r.res = "false"
               /\ r.g.nodes = nodes
               /\ r.g.edges = edges

----------------------------------------------------------------------------
\* C13. update_object validates before it mutates: for an Object, when a key
\* of properties is not a DatatypeProperty uri of the signature of its class,
\* or an entry of object_properties names a relation that is not in
\* obj_params or a target that no node has, every outcome of the call is a
\* raise with no delete_arc_by_id, no create_arc and no update_node done: the
\* graph is unchanged.  For a uri that is no Object node the call returns
\* None and the graph is unchanged.
C13_Invalid(o, properties, object_properties) ==
    \E sig \in SigOf(Store, o) :
        \/ \E k \in properties : ~\E p \in sig.params : p.uri = k
        \/ /\ object_properties # <<>>
           /\ \E i \in 1..Len(object_properties[1]) :
                \/ ~\E p \in sig.obj_params :
                       p.uri = object_properties[1][i].relation_uri
                \/ ~\E n \in nodes : n.uri = object_properties[1][i].obj_uri

C13_Untouched(r) ==
    /\ r.g.nodes = nodes
    /\ r.g.edges = edges
    /\ r.g.ndel = 0
    /\ r.g.ncre = 0

C13_UpdateObjectValidatesFirst ==
    \A uri \in Uris, title \in {<<>>, <<ObjectTitle>>}, properties \in PropArgs,
       object_properties \in {<<>>} \cup {<<D>> : D \in OpLists} :
        \A r \in update_object(Store, uri, title, properties, object_properties) :
            /\ \A o \in Objects :
                  o.uri = uri /\ C13_Invalid(o, properties, object_properties) =>
                      r.res = "raised" /\ C13_Untouched(r)
            /\ (~\E o \in Objects : o.uri = uri) =>
                      r.res = "none" /\ C13_Untouched(r)

\* An Object with an arc the delete loop would remove, and a desired list
\* whose relation is known and whose target no node has: the call raises.
C13_Witness ==
    \E o \in Objects, e \in edges, rel \in PropUris :
        /\ e.from = o.nid /\ e.to = o.nid
        /\ e.type \in KnownTitles(Store, o)
        /\ \E sig \in SigOf(Store, o) : rel \in {p.uri : p \in sig.obj_params}
        /\ \A r \in update_object(Store, o.uri, <<>>, {},
                     <<<<[relation_uri |-> rel, obj_uri |-> 0, direction |-> 1]>>>>) :
               r.res = "raised"

\* C15. Schema-node edge invariant: in every state the ontology operations
\* reach, every DatatypeProperty node has exactly one outgoing DOMAIN arc,
\* to a Class node, and every ObjectProperty node has exactly one outgoing
\* DOMAIN arc and exactly one outgoing RANGE arc, both to Class nodes.
C15_OneArcToClass(d, type) ==
    /\ Cardinality({e \in edges : e.type = type /\ e.from = d.nid}) = 1
    /\ \A e \in edges : e.type = type /\ e.from = d.nid => NodeOf(Store, e.to).label = "Class"

C15_SchemaNodeEdges ==
    \A d \in nodes :
        /\ d.label = "DatatypeProperty" => C15_OneArcToClass(d, "DOMAIN")
        /\ d.label = "ObjectProperty" =>
              C15_OneArcToClass(d, "DOMAIN") /\ C15_OneArcToClass(d, "RANGE")

\* C16. Cascading delete frame: delete_class(P) deletes no node other than
\* the Classes with a SUBCLASSOF path of length >= 0 to P and the Objects
\* that are instances of one of them; every other node, the property nodes
\* of a deleted class included, is still there, and the arcs between the
\* nodes that remain are unchanged.
C16_Cascade(uri) ==
    LET cs == {c.nid : c \in {x \in Classes :
                  x.nid \in Descendants({n.nid : n \in {y \in nodes : y.uri = uri}})}}
    IN cs \cup {o.nid : o \in {x \in Objects : \E c \in cs : HasArc("INSTANCEOF", x.nid, c)}}

C16_CascadeFrame ==
    \A uri \in Uris :
        LET r == delete_class(Store, uri)
            left == {n.nid : n \in r.g.nodes}
        IN /\ r.g.nodes \subseteq nodes
           /\ \A n \in nodes \ r.g.nodes : n.nid \in C16_Cascade(uri)
           /\ r.g.edges = {e \in edges : e.from \in left /\ e.to \in left}

\* A class with a property declared on it and an instance: delete_class
\* removes the class and the instance and the property node remains.
C16_Witness ==
    \E c \in Classes, d \in nodes, o \in Objects :
        /\ d.label \in {"DatatypeProperty", "ObjectProperty"}
        /\ HasArc("DOMAIN", d.nid, c.nid)
        /\ HasArc("INSTANCEOF", o.nid, c.nid)
        /\ LET r == delete_class(Store, c.uri)
           IN r.res = "ok" /\ d \in r.g.nodes /\ c \notin r.g.nodes /\ o \notin r.g.nodes

----------------------------------------------------------------------------
\* C14. Cycle safety: when the SUBCLASSOF arcs contain a cycle, a self-loop
\* included, collect_signature(C) and delete_class(C) still return for every
\* Class C, the closure they use holds every Class of the cycle once, and
\* collect_signature returns each property it reaches once.
HasCycle ==
    \E e \in edges : e.type = "SUBCLASSOF" /\ e.from \in Ancestors({e.to})

C14_CycleSafety ==
    HasCycle =>
        \A c \in Classes :
            LET sig == collect_signature(Store, c.uri)
                del == delete_class(Store, c.uri)
            IN /\ sig.res = "ok"
               /\ \A d \in DeclaredOn(c, "DatatypeProperty") :
                     Cardinality({p \in sig.params : p.uri = d.uri}) = 1
               /\ \A p \in sig.obj_params :
                     Cardinality({q \in sig.obj_params : q.uri = p.uri}) = 1
               /\ del.res = "ok"
               /\ \A x \in Classes :
                     x.nid \in Descendants({c.nid}) => x \notin del.g.nodes

\* Two classes that are each other's parent, a DatatypeProperty declared on
\* one of them only: the other has it in its signature.
C14_Witness ==
    \E a \in Classes, b \in Classes, d \in nodes :
        /\ a # b
        /\ HasArc("SUBCLASSOF", a.nid, b.nid)
        /\ HasArc("SUBCLASSOF", b.nid, a.nid)
        /\ d.label = "DatatypeProperty"
        /\ HasArc("DOMAIN", d.nid, b.nid)
        /\ ~HasArc("DOMAIN", d.nid, a.nid)
        /\ d.uri \in {p.uri : p \in collect_signature(Store, a.uri).params}

\* C17. Arcs created by create_object: a successful
\* create_object(class_uri, ..., object_properties=L) adds exactly one node,
\* labelled Object, exactly one INSTANCEOF arc from it to class_uri and, for
\* each entry of L, exactly one arc whose type is the title of the
\* ObjectProperty relation_uri names, from the new Object to obj_uri when
\* direction is 1 and from obj_uri to the new Object otherwise; nothing else
\* is added or removed.
C17_CreateObjectArcs ==
    \A class_uri \in Uris, properties \in PropArgs, L \in OpLists :
        LET r == create_object(Store, class_uri, ObjectTitle, properties, L)
            added == r.g.edges \ edges
        IN r.res = "ok" =>
             /\ nodes \subseteq r.g.nodes
             /\ edges \subseteq r.g.edges
             /\ \E n \in r.g.nodes \ nodes :
                   /\ r.g.nodes \ nodes = {n}
                   /\ n.label = "Object"
                   /\ Cardinality({e \in added : e.type = "INSTANCEOF"}) = 1
                   /\ \A e \in added : e.type = "INSTANCEOF" =>
                         e.from = n.nid /\ NodeOf(r.g, e.to).uri = class_uri
                   /\ \A i \in 1..Len(L) :
                         Cardinality({e \in added : Realises(r.g, e, n, L[i])}) = 1
                   /\ \A e \in added :
                         \/ e.type = "INSTANCEOF"
                         \/ \E i \in 1..Len(L) : Realises(r.g, e, n, L[i])

\* C19. update_object with object_properties omitted changes no arc;
\* with object_properties = [] it deletes exactly the arcs between the
\* Object and an Object-labelled node whose type is the title of an
\* ObjectProperty of the class signature, and creates none.
C19_Related(o) ==
    {e \in edges : /\ Touches(e, o)
                   /\ Other(Store, e, o).label = "Object"
                   /\ e.type \in KnownTitles(Store, o)}

C19_NoneVersusEmpty ==
    \A o \in Objects, title \in {<<>>, <<ObjectTitle>>}, properties \in PropArgs :
        /\ \A r \in update_object(Store, o.uri, title, properties, <<>>) :
              r.g.edges = edges /\ r.g.ndel = 0 /\ r.g.ncre = 0
        /\ \A r \in update_object(Store, o.uri, title, properties, << <<>> >>) :
              r.res = "ok" => r.g.edges = edges \ C19_Related(o) /\ r.g.ncre = 0

\* An Object with a relation arc to an Object node: without
\* object_properties the call keeps the arc, with [] it removes it.
C19_Witness ==
    \E o \in Objects : \E e \in C19_Related(o) :
        /\ \E r \in update_object(Store, o.uri, <<>>, {}, <<>>) :
              r.res = "ok" /\ e \in r.g.edges
        /\ \E r \in update_object(Store, o.uri, <<>>, {}, << <<>> >>) :
              r.res = "ok" /\ e \notin r.g.edges

\* C20. create_class with a parent_uri that names no node fails without
\* side effects: it raises and no Class node has been added.
C20_CreateClassUnknownParent ==
    \A parent_uri \in DanglingUris :
        LET r == create_class(Store, ClassTitle, <<parent_uri>>)
        IN /\ r.res = "raised"
           /\ r.g.nodes = nodes
           /\ r.g.edges = edges

----------------------------------------------------------------------------
\* C11. INSTANCEOF invariant: in every state the ontology operations reach,
\* attr_name being any title, every Object node has exactly one outgoing
\* INSTANCEOF arc, the one to its class that create_object made.
C11_InstanceOfInvariant ==
    \A o \in Objects :
        /\ Cardinality({e \in edges : e.type = "INSTANCEOF" /\ e.from = o.nid}) = 1
        /\ \A e \in edges :
              e.type = "INSTANCEOF" /\ e.from = o.nid => NodeOf(Store, e.to).label = "Class"

----------------------------------------------------------------------------
\* C12. uri uniqueness: in every state reached by create_node, with or
\* without a uri supplied by the caller, create_class, add_class_attribute,
\* add_class_object_attribute, create_object, update_node and the delete
\* operations, no two nodes, of the same label or not, have the same uri.
C12_UriUniqueness ==
    \A n \in nodes, m \in nodes : n.uri = m.uri => n = m

----------------------------------------------------------------------------
\* C18. Cascade versus concurrent creation: when the store operations of
\* delete_class(P) and of create_object(Q, ...), Q a class of the cascade of
\* P, interleave in any order, then once both calls have returned or raised
\* every Object node has an INSTANCEOF arc to a Class node that exists: no
\* instance of a deleted class survives.
Finished ==
    /\ run.dc.pc \in {"true", "false"}
    /\ run.co.pc \in {"returned", "raised"}

C18_CascadeVersusCreation ==
    Finished =>
        \A o \in Objects : \E c \in Classes : HasArc("INSTANCEOF", o.nid, c.nid)

====
